---- MODULE Spec2Model ----
(***************************************************************************)
(* The rate-limit-aware request dispatcher of discord-api-wrapper          *)
(* (api/rest.go): RateLimiter.Request and requestWithLockedBucket, run by  *)
(* several concurrent callers against buckets taken from the registry.     *)
(*                                                                         *)
(* The bucket itself (lockBucket, lockBucketObject, bucket.release) belongs *)
(* to the repository but is not among the source files; it is modelled     *)
(* from sections 4.1, 4.2 and 5 of the specification.  The HTTP client      *)
(* (heimdall) and the server are the environment: every outcome of         *)
(* httpClient.Do is a nondeterministic choice.                             *)
(***************************************************************************)
EXTENDS Integers, Sequences, FiniteSets, TLC

(* ------------------------------ bounds -------------------------------- *)
MaxTime       == 2      \* the clock stops ticking here
MaxRetries    == 1      \* recursions of one logical request the model follows
MaxLimit      == 1      \* largest X-RateLimit-Limit the server reports
MaxDelta      == 1      \* largest distance of a reported reset from now
MaxRetryAfter == 1      \* largest retry_after of a rejection payload

(* ------------------------- program constants -------------------------- *)
StatusOK              == 200
StatusCreated         == 201
StatusNoContent       == 204
StatusNotFound        == 404
StatusTooManyRequests == 429

(* Two goroutines call Rest.Request concurrently, each any number of times *)
Callers == {1, 2}

NoErr == "nil"
NoResp == 0             \* a nil *http.Response

(* The calls the endpoint wrappers make: (method, route, b).  A route is a *)
(* sequence of symbols in which "?" starts the query string.  A body that  *)
(* json cannot encode and a method http.NewRequest rejects are the two     *)
(* defects a call can carry.                                               *)
(* reason is the optional audit-log reason, "nil" when the caller has none. *)
Calls ==
    { [method |-> "GET",        route |-> <<"a">>,           b |-> "nil",
       reason |-> "nil"],
      [method |-> "POST",       route |-> <<"a", "?", "q">>, b |-> "unencodable",
       reason |-> "nil"],
      [method |-> "POST",       route |-> <<"b">>,           b |-> "ok",
       reason |-> "why"],
      [method |-> "BAD METHOD", route |-> <<"b">>,           b |-> "nil",
       reason |-> "nil"] }

(* a bucket ID that keeps the query string *)
SplitN0Whole(route) == route

(* a bucket ID made of the first path segment only *)
SplitN0First(route) == IF route = <<>> THEN <<>> ELSE <<Head(route)>>

(* strings.SplitN(route, "?", 2)[0] *)
RECURSIVE SplitN0(_)
SplitN0(route) ==
    IF route = <<>> \/ Head(route) = "?" THEN <<>>
    ELSE <<Head(route)>> \o SplitN0(Tail(route))

(* RateLimiter.Request: the bucket ID handed to requestWithBucketID *)
BucketIDOf(route) == SplitN0(route)

Keys == { BucketIDOf(c.route) : c \in Calls }

(* ------------------------ messages and records ------------------------ *)
NoHeader == [kind |-> "absent", limit |-> 0, remaining |-> 0, reset |-> 0]
BadHeader == [kind |-> "bad", limit |-> 0, remaining |-> 0, reset |-> 0]

(* Rate-limit headers with the quota fields, as reported at time t *)
QuotaHeaders(t) ==
    { [kind |-> "quota", limit |-> l, remaining |-> r, reset |-> t + d] :
        l \in 1..MaxLimit, r \in 0..MaxLimit, d \in 1..MaxDelta }

(* Headers release accepts: with or without the quota fields *)
GoodHeaders(t) == { NoHeader } \cup QuotaHeaders(t)

(* Bodies of a 429 response that decode into a rateLimitResponse *)
RejectionBodies ==
    { [kind |-> "rateLimit", retryAfter |-> d, global |-> g] :
        d \in 1..MaxRetryAfter, g \in BOOLEAN }

(* The statuses the server answers with: two of the statuses the switch    *)
(* of rest.go:155-160 lists, one it does not list, and the rejection.      *)
Statuses == { StatusOK, StatusNoContent, StatusNotFound, StatusTooManyRequests }

NoArgs == [method |-> "GET", route |-> <<>>, b |-> "nil", reason |-> "nil"]
NoRet == [resp |-> NoResp, err |-> NoErr]
NoRl == [at |-> 0, retryAfter |-> 0, global |-> FALSE]

(* instances counts the Bucket objects ever constructed for the key *)
NewBucket == [created |-> FALSE, instances |-> 0, limit |-> 0, remaining |-> 0,
              resetAt |-> 0]

(* The calls a reported quota lets pass (left) before its reset (until);  *)
(* a bucket that has observed no response has the empty budget.           *)
NoBudget == [left |-> 0, until |-> 0]

(* The budget after a response with headers hdr *)
Reported(g, hdr) ==
    IF hdr.kind = "quota" THEN [left |-> hdr.remaining, until |-> hdr.reset]
    ELSE g

(* The budget after a call has passed without waiting *)
Passed(g) == IF g.left > 0 THEN [g EXCEPT !.left = g.left - 1] ELSE g

(* No endpoint call in progress *)
NoCall == [fn |-> "none", arg |-> "none"]

NoStats == [acq |-> 0, rel |-> 0, sends |-> 0, n429 |-> 0, waits |-> 0,
            lastErr |-> NoErr, startReset |-> 0, enterReset |-> 0,
            inst |-> 0, headers |-> {}, status |-> NoResp]

(* The resetAt a caller has to wait for when it meets bucket b at time t *)
Exhausted(b, t) == IF b.remaining = 0 /\ t < b.resetAt THEN b.resetAt ELSE 0

(* ------------------------------- state -------------------------------- *)
VARIABLES
    now,          \* the clock (time.Now)
    buckets,      \* the registry: bucket key -> quota state
    holder,       \* bucket key -> caller inside the exclusive section, 0 if free
    queue,        \* bucket key -> callers blocked on the exclusive section
    globalPause,  \* the process-wide pause gate acquire consults
    call,         \* caller -> the endpoint call in progress
    pc,           \* caller -> position in Request
    args,         \* caller -> (method, route, b) of the call in progress
    bucketID,     \* caller -> bucket key of the call in progress
    depth,        \* caller -> nested requestWithLockedBucket frames (429 retries)
    wakeAt,       \* caller -> end of the current time.Sleep / quota wait
    rl,           \* caller -> the rejection payload it is sleeping on
    ret,          \* caller -> what Request returned
    arrived,      \* bucket key -> callers whose response came back, in order
    fresh,        \* bucket key -> quota headers of the last response, until the next acquire
    budget,       \* bucket key -> what the last reported quota still lets pass, and until when
    stats         \* caller -> history of the call in progress

vars == <<now, buckets, holder, queue, globalPause, call, pc, args, bucketID, depth,
          wakeAt, rl, ret, arrived, fresh, budget, stats>>

Init ==
    /\ now = 0
    /\ buckets = [k \in Keys |-> NewBucket]
    /\ holder = [k \in Keys |-> 0]
    /\ queue = [k \in Keys |-> <<>>]
    /\ globalPause = 0
    /\ call = [p \in Callers |-> NoCall]
    /\ pc = [p \in Callers |-> "idle"]
    /\ args = [p \in Callers |-> NoArgs]
    /\ bucketID = [p \in Callers |-> <<>>]
    /\ depth = [p \in Callers |-> 0]
    /\ wakeAt = [p \in Callers |-> 0]
    /\ rl = [p \in Callers |-> NoRl]
    /\ ret = [p \in Callers |-> NoRet]
    /\ arrived = [k \in Keys |-> <<>>]
    /\ fresh = [k \in Keys |-> NoHeader]
    /\ budget = [k \in Keys |-> NoBudget]
    /\ stats = [p \in Callers |-> NoStats]

(* ----------------------- registry (section 4.1) ----------------------- *)
(* a resolve that constructs a Bucket on every call *)
resolveAlways(b) == [b EXCEPT !.created = TRUE, !.instances = @ + 1]

(* resolve(key): the bucket of the key, constructed on first use *)
resolve(b) ==
    IF b.created THEN b ELSE [b EXCEPT !.created = TRUE, !.instances = @ + 1]

(* ------------------------- bucket (section 4.2) ----------------------- *)
(* acquire that consults the pause gate only and never waits for resetAt *)
WaitUntilNoQuota(b, pause, t) == IF pause > t THEN pause ELSE t

(* acquire: the time until which the holder of the section has to wait *)
WaitUntil(b, pause, t) ==
    LET quota == IF b.remaining = 0 /\ t < b.resetAt THEN b.resetAt ELSE t
    IN IF pause > quota THEN pause ELSE quota

(* acquire that decrements remaining whatever its value *)
DecrementAlways(b) == [b EXCEPT !.remaining = b.remaining - 1]

(* acquire that does not count the call it lets pass *)
DecrementNever(b) == b

(* acquire: the optimistic decrement of remaining *)
Decrement(b) ==
    IF b.remaining > 0 THEN [b EXCEPT !.remaining = b.remaining - 1] ELSE b

(* release(headers): quota state after the release *)
release(b, hdr) ==
    IF hdr.kind = "quota"
    THEN [b EXCEPT !.limit = hdr.limit, !.remaining = hdr.remaining,
                   !.resetAt = hdr.reset]
    ELSE b

(* release(headers): the error it returns *)
releaseErr(hdr) == IF hdr.kind = "bad" THEN "release" ELSE NoErr

(* release(nil) taken for headers that report an empty quota *)
ReleaseNilZeroQuota == [kind |-> "quota", limit |-> 0, remaining |-> 0, reset |-> 0]

(* rest.go:101,108,139: the headers of release(nil) *)
ReleaseNil == NoHeader

(* release(nil) in the place of release(resp.Header) *)
ReleaseHeaderNil(hdr) == NoHeader

(* rest.go:150: the headers of release(resp.Header) *)
ReleaseHeader(hdr) == hdr

(* ----------------------------- dispatcher ----------------------------- *)
(* rest.go:173-176: what the frames above the innermost one hand back *)
Unwind(d, r, e) == IF d = 0 THEN [resp |-> r, err |-> e]
                   ELSE [resp |-> r, err |-> NoErr]

(* The quota headers a response carried, NoHeader if it carried none *)
Seen(hdr) == IF hdr.kind = "quota" THEN hdr ELSE NoHeader

(* The innermost frame of caller p returns (r, e) after release(hdr);      *)
(* seen are the headers of the response it received.                       *)
Finish(p, hdr, seen, r, e) ==
    LET k == bucketID[p] IN
    /\ buckets' = [buckets EXCEPT ![k] = release(@, hdr)]
    /\ fresh' = [fresh EXCEPT ![k] = Seen(seen)]
    /\ budget' = [budget EXCEPT ![k] = Reported(@, seen)]
    /\ holder' = [holder EXCEPT ![k] = IF @ = p THEN 0 ELSE @]
    /\ pc' = [pc EXCEPT ![p] = "done"]
    /\ ret' = [ret EXCEPT ![p] = Unwind(depth[p], r, e)]
    /\ UNCHANGED <<now, queue, globalPause, call, args, bucketID, depth, wakeAt, rl>>

(* rest.go:78-91: Request computes the bucket ID, request resolves the     *)
(* bucket in the registry and blocks on its exclusive section.            *)
Request(p) ==
    /\ pc[p] = "idle"
    /\ \E c \in Calls :
        LET id == BucketIDOf(c.route) IN
        /\ args' = [args EXCEPT ![p] = c]
        /\ bucketID' = [bucketID EXCEPT ![p] = id]
        /\ buckets' = [buckets EXCEPT ![id] = resolve(@)]
        /\ queue' = [queue EXCEPT ![id] = Append(@, p)]
        /\ stats' = [stats EXCEPT ![p].startReset = Exhausted(buckets[id], now),
                                  ![p].inst = resolve(buckets[id]).instances]
    /\ pc' = [pc EXCEPT ![p] = "lockBucket"]
    /\ UNCHANGED <<now, holder, globalPause, call, depth, wakeAt, rl, ret, arrived,
                   fresh, budget>>

(* lockBucket / lockBucketObject: enter the exclusive section in arrival   *)
(* order, then wait for quota or decrement it.                             *)
lockBucket(p) ==
    LET k == bucketID[p]
        b == buckets[k]
        until == WaitUntil(b, globalPause, now)
    IN
    /\ pc[p] = "lockBucket"
    /\ holder[k] = 0
    /\ queue[k] # <<>> /\ Head(queue[k]) = p
    /\ holder' = [holder EXCEPT ![k] = p]
    /\ queue' = [queue EXCEPT ![k] = Tail(@)]
    /\ fresh' = [fresh EXCEPT ![k] = NoHeader]
    /\ stats' = [stats EXCEPT ![p].acq = @ + 1,
                              ![p].enterReset = Exhausted(b, now)]
    /\ IF until > now
       THEN /\ pc' = [pc EXCEPT ![p] = "quotaWait"]
            /\ wakeAt' = [wakeAt EXCEPT ![p] = until]
            /\ UNCHANGED <<buckets, budget>>
       ELSE /\ pc' = [pc EXCEPT ![p] = "locked"]
            /\ buckets' = [buckets EXCEPT ![k] = Decrement(b)]
            /\ budget' = [budget EXCEPT ![k] = Passed(@)]
            /\ UNCHANGED wakeAt
    /\ UNCHANGED <<now, globalPause, call, args, bucketID, depth, rl, ret, arrived>>

(* acquire: the local wait for resetAt is over *)
quotaWaitDone(p) ==
    /\ pc[p] = "quotaWait"
    /\ now >= wakeAt[p]
    /\ pc' = [pc EXCEPT ![p] = "locked"]
    /\ wakeAt' = [wakeAt EXCEPT ![p] = 0]
    /\ UNCHANGED <<now, buckets, holder, queue, globalPause, call, args, bucketID,
                   depth, rl, ret, arrived, fresh, budget, stats>>

(* rest.go:95-103: the body cannot be encoded *)
EncodeFail(p) ==
    /\ pc[p] = "locked"
    /\ args[p].b = "unencodable"
    /\ stats' = [stats EXCEPT ![p].rel = @ + 1, ![p].lastErr = "encode",
                              ![p].startReset = 0, ![p].enterReset = 0]
    /\ Finish(p, ReleaseNil, NoHeader, NoResp, "encode")
    /\ UNCHANGED arrived

(* rest.go:106-110: http.NewRequest rejects the method *)
NewRequestFail(p) ==
    /\ pc[p] = "locked"
    /\ args[p].b # "unencodable"
    /\ args[p].method = "BAD METHOD"
    /\ stats' = [stats EXCEPT ![p].rel = @ + 1, ![p].lastErr = "newRequest",
                              ![p].startReset = 0, ![p].enterReset = 0]
    /\ Finish(p, ReleaseNil, NoHeader, NoResp, "newRequest")
    /\ UNCHANGED arrived

(* outbound headers with the Content-Type set whatever the body *)
OutboundHeadersWithType(a) == {"Authorization", "User-Agent", "Content-Type"}

(* rest.go:112-118: the headers set on the outbound request *)
OutboundHeaders(a) ==
    {"Authorization", "User-Agent"} \cup
    (IF a.b # "nil" THEN {"Content-Type"} ELSE {})

(* rest.go:112-135: the request is handed to httpClient.Do *)
Send(p) ==
    /\ pc[p] = "locked"
    /\ args[p].b # "unencodable"
    /\ args[p].method # "BAD METHOD"
    /\ pc' = [pc EXCEPT ![p] = "inFlight"]
    /\ stats' = [stats EXCEPT ![p].sends = @ + 1,
                              ![p].startReset = 0, ![p].enterReset = 0,
                              ![p].headers = OutboundHeaders(args[p])]
    /\ UNCHANGED <<now, buckets, holder, queue, globalPause, call, args, bucketID,
                   depth, wakeAt, rl, ret, arrived, fresh, budget>>

(* rest.go:135: httpClient.Do returns; what it returned is read below *)
Do(p) ==
    /\ pc[p] = "inFlight"
    /\ pc' = [pc EXCEPT ![p] = "returned"]
    /\ arrived' = [arrived EXCEPT ![bucketID[p]] = Append(@, p)]
    /\ UNCHANGED <<now, buckets, holder, queue, globalPause, call, args, bucketID,
                   depth, wakeAt, rl, ret, fresh, budget, stats>>

(* The response of caller p is taken off the arrival order *)
Consume(p) ==
    arrived' = [arrived EXCEPT ![bucketID[p]] = SelectSeq(@, LAMBDA q : q # p)]

(* rest.go:136: Do returned (nil, err); resp.Status dereferences nil *)
NilDereference(p) ==
    /\ pc[p] = "returned"
    /\ pc' = [pc EXCEPT ![p] = "panicked"]
    /\ stats' = [stats EXCEPT ![p].lastErr = "transport"]
    /\ Consume(p)
    /\ UNCHANGED <<now, buckets, holder, queue, globalPause, call, args, bucketID,
                   depth, wakeAt, rl, ret, fresh, budget>>

(* a transport error that is retried silently instead of being returned *)
TransportErrorRetrying(p) ==
    /\ pc[p] = "returned"
    /\ depth[p] < MaxRetries
    /\ buckets' = [buckets EXCEPT ![bucketID[p]] = release(@, ReleaseNil)]
    /\ holder' = [holder EXCEPT ![bucketID[p]] = IF @ = p THEN 0 ELSE @]
    /\ pc' = [pc EXCEPT ![p] = "lockBucket"]
    /\ queue' = [queue EXCEPT ![bucketID[p]] = Append(@, p)]
    /\ depth' = [depth EXCEPT ![p] = @ + 1]
    /\ stats' = [stats EXCEPT ![p].rel = @ + 1, ![p].lastErr = "transport"]
    /\ Consume(p)
    /\ UNCHANGED <<now, globalPause, call, args, bucketID, wakeAt, rl, ret, fresh, budget>>

(* rest.go:138-148: Do returned a response and an error *)
TransportError(p) ==
    /\ pc[p] = "returned"
    /\ stats' = [stats EXCEPT ![p].rel = @ + 1, ![p].lastErr = "transport"]
    /\ Finish(p, ReleaseNil, NoHeader, NoResp, "transport")
    /\ Consume(p)

(* rest.go:150-153: release(resp.Header) fails *)
ReleaseError(p) ==
    /\ pc[p] = "returned"
    /\ \E s \in Statuses :
        /\ stats' = [stats EXCEPT ![p].rel = @ + 1,
                        ![p].lastErr = releaseErr(BadHeader),
                        ![p].status = s,
                        ![p].n429 = @ + (IF s = StatusTooManyRequests THEN 1 ELSE 0)]
    /\ Finish(p, ReleaseHeader(BadHeader), BadHeader, NoResp, releaseErr(BadHeader))
    /\ Consume(p)

(* a dispatcher that returns the response without releasing the bucket *)
RespondUnreleased(p) ==
    /\ pc[p] = "returned"
    /\ \E s \in Statuses \ {StatusTooManyRequests} :
        /\ ret' = [ret EXCEPT ![p] = Unwind(depth[p], s, NoErr)]
        /\ stats' = [stats EXCEPT ![p].lastErr = NoErr, ![p].status = s]
    /\ pc' = [pc EXCEPT ![p] = "done"]
    /\ Consume(p)
    /\ UNCHANGED <<now, buckets, holder, queue, globalPause, call, args, bucketID,
                   depth, wakeAt, rl, fresh, budget>>

(* rest.go:150-159,176: any status but 429 *)
Respond(p) ==
    /\ pc[p] = "returned"
    /\ \E s \in Statuses \ {StatusTooManyRequests}, hdr \in GoodHeaders(now) :
        /\ releaseErr(hdr) = NoErr
        /\ Finish(p, ReleaseHeader(hdr), hdr, s, NoErr)
        /\ stats' = [stats EXCEPT ![p].rel = @ + 1, ![p].lastErr = NoErr,
                                  ![p].status = s]
    /\ Consume(p)

(* rest.go:160-169: a 429 whose body does not decode *)
DecodeError(p) ==
    /\ pc[p] = "returned"
    /\ \E hdr \in GoodHeaders(now) :
        /\ releaseErr(hdr) = NoErr
        /\ Finish(p, ReleaseHeader(hdr), hdr, NoResp, "decode")
    /\ stats' = [stats EXCEPT ![p].rel = @ + 1, ![p].lastErr = "decode",
                              ![p].n429 = @ + 1]
    /\ Consume(p)

(* a retry that does not sleep *)
SleepForZero(body) == 0

(* rest.go:171: the duration handed to time.Sleep *)
SleepFor(body) == body.retryAfter

(* a 429 handler that pauses every bucket for the time of its sleep *)
RateLimitedPausingAll(p) ==
    LET k == bucketID[p] IN
    /\ pc[p] = "returned"
    /\ \E hdr \in GoodHeaders(now), body \in RejectionBodies :
        /\ releaseErr(hdr) = NoErr
        /\ buckets' = [buckets EXCEPT ![k] = release(@, ReleaseHeader(hdr))]
        /\ fresh' = [fresh EXCEPT ![k] = Seen(hdr)]
        /\ budget' = [budget EXCEPT ![k] = Reported(@, hdr)]
        /\ rl' = [rl EXCEPT ![p] = [at |-> now, retryAfter |-> body.retryAfter,
                                    global |-> body.global]]
        /\ wakeAt' = [wakeAt EXCEPT ![p] = now + SleepFor(body)]
        /\ globalPause' = now + SleepFor(body)
        /\ UNCHANGED call
    /\ holder' = [holder EXCEPT ![k] = IF @ = p THEN 0 ELSE @]
    /\ stats' = [stats EXCEPT ![p].rel = @ + 1, ![p].lastErr = NoErr,
                              ![p].n429 = @ + 1, ![p].waits = @ + 1]
    /\ pc' = [pc EXCEPT ![p] = "sleep"]
    /\ Consume(p)
    /\ UNCHANGED <<now, queue, args, bucketID, depth, ret>>

(* rest.go:160-171: a 429 with a rejection payload: time.Sleep(RetryAfter) *)
RateLimited(p) ==
    LET k == bucketID[p] IN
    /\ pc[p] = "returned"
    /\ \E hdr \in GoodHeaders(now), body \in RejectionBodies :
        /\ releaseErr(hdr) = NoErr
        /\ buckets' = [buckets EXCEPT ![k] = release(@, ReleaseHeader(hdr))]
        /\ fresh' = [fresh EXCEPT ![k] = Seen(hdr)]
        /\ budget' = [budget EXCEPT ![k] = Reported(@, hdr)]
        /\ rl' = [rl EXCEPT ![p] = [at |-> now, retryAfter |-> body.retryAfter,
                                    global |-> body.global]]
        /\ wakeAt' = [wakeAt EXCEPT ![p] = now + SleepFor(body)]
    /\ holder' = [holder EXCEPT ![k] = IF @ = p THEN 0 ELSE @]
    /\ stats' = [stats EXCEPT ![p].rel = @ + 1, ![p].lastErr = NoErr,
                              ![p].n429 = @ + 1, ![p].waits = @ + 1]
    /\ pc' = [pc EXCEPT ![p] = "sleep"]
    /\ Consume(p)
    /\ UNCHANGED <<now, queue, globalPause, call, args, bucketID, depth, ret>>

(* a retry that recurses with the bucket it released, without locking it *)
RetryUnlocked(p) ==
    /\ pc[p] = "sleep"
    /\ depth[p] < MaxRetries
    /\ now >= wakeAt[p]
    /\ pc' = [pc EXCEPT ![p] = "locked"]
    /\ depth' = [depth EXCEPT ![p] = @ + 1]
    /\ wakeAt' = [wakeAt EXCEPT ![p] = 0]
    /\ rl' = [rl EXCEPT ![p] = NoRl]
    /\ UNCHANGED <<now, buckets, holder, queue, globalPause, call, args, bucketID,
                   ret, arrived, fresh, budget, stats>>

(* a retry that re-locks the bucket ahead of the callers already waiting *)
RetryAhead(p) ==
    /\ pc[p] = "sleep"
    /\ now >= wakeAt[p]
    /\ depth[p] < MaxRetries
    /\ pc' = [pc EXCEPT ![p] = "lockBucket"]
    /\ queue' = [queue EXCEPT ![bucketID[p]] = <<p>> \o @]
    /\ depth' = [depth EXCEPT ![p] = @ + 1]
    /\ wakeAt' = [wakeAt EXCEPT ![p] = 0]
    /\ rl' = [rl EXCEPT ![p] = NoRl]
    /\ stats' = [stats EXCEPT
                    ![p].startReset = Exhausted(buckets[bucketID[p]], now)]
    /\ UNCHANGED <<now, buckets, holder, globalPause, call, args, bucketID, ret,
                   arrived, fresh, budget>>

(* rest.go:173: after the sleep, lockBucketObject(bucket) and recurse. The  *)
(* code recurses without limit; the model follows MaxRetries recursions.   *)
Retry(p) ==
    /\ pc[p] = "sleep"
    /\ depth[p] < MaxRetries
    /\ now >= wakeAt[p]
    /\ pc' = [pc EXCEPT ![p] = "lockBucket"]
    /\ queue' = [queue EXCEPT ![bucketID[p]] = Append(@, p)]
    /\ depth' = [depth EXCEPT ![p] = @ + 1]
    /\ wakeAt' = [wakeAt EXCEPT ![p] = 0]
    /\ rl' = [rl EXCEPT ![p] = NoRl]
    /\ stats' = [stats EXCEPT
                    ![p].startReset = Exhausted(buckets[bucketID[p]], now)]
    /\ UNCHANGED <<now, buckets, holder, globalPause, call, args, bucketID, ret,
                   arrived, fresh, budget>>

(* The caller has its result; the goroutine is free for another call *)
Return(p) ==
    /\ pc[p] = "done"
    /\ pc' = [pc EXCEPT ![p] = "idle"]
    /\ args' = [args EXCEPT ![p] = NoArgs]
    /\ bucketID' = [bucketID EXCEPT ![p] = <<>>]
    /\ depth' = [depth EXCEPT ![p] = 0]
    /\ ret' = [ret EXCEPT ![p] = NoRet]
    /\ stats' = [stats EXCEPT ![p] = NoStats]
    /\ UNCHANGED <<now, buckets, holder, queue, globalPause, call, wakeAt, rl,
                   arrived, fresh, budget>>

(* time passes *)
Tick ==
    /\ now < MaxTime
    /\ now' = now + 1
    /\ UNCHANGED <<buckets, holder, queue, globalPause, call, pc, args, bucketID,
                   depth, wakeAt, rl, ret, arrived, fresh, budget, stats>>

Next ==
    \/ Tick
    \/ \E p \in Callers :
        \/ Request(p)
        \/ lockBucket(p)
        \/ quotaWaitDone(p)
        \/ EncodeFail(p)
        \/ NewRequestFail(p)
        \/ Send(p)
        \/ Do(p)
        \/ NilDereference(p)
        \/ TransportError(p)
        \/ ReleaseError(p)
        \/ Respond(p)
        \/ DecodeError(p)
        \/ RateLimited(p)
        \/ Retry(p)
        \/ Return(p)

Spec == Init /\ [][Next]_vars

(* ---------------- bucket keys of the endpoint routes ------------------- *)
(* The routes the endpoint wrappers format: a resource, its ID, a          *)
(* sub-resource, and optionally a query string (ExecuteWebhook sets wait   *)
(* and thread_id).                                                         *)
Ids == { "1", "2" }
KeyPaths == { <<"g", id, leaf>> : id \in Ids, leaf \in {"e", "r"} }
Queries == { <<>>, <<"?", "w">>, <<"?", "w", "?", "t">> }
KeyRoutes == { path \o q : path \in KeyPaths, q \in Queries }

(* The route template of a path: every ID replaced by a placeholder *)
Template(path) ==
    [i \in 1..Len(path) |-> IF path[i] \in Ids THEN ":id" ELSE path[i]]

(* rest.go:78-91: Request computes the bucket ID of an endpoint route *)
KeyRequest(p) ==
    /\ pc[p] = "idle"
    /\ \E route \in KeyRoutes :
        /\ args' = [args EXCEPT ![p] = [method |-> "GET", route |-> route,
                                        b |-> "nil", reason |-> "nil"]]
        /\ bucketID' = [bucketID EXCEPT ![p] = BucketIDOf(route)]
    /\ pc' = [pc EXCEPT ![p] = "resolved"]
    /\ UNCHANGED <<now, buckets, holder, queue, globalPause, call, depth, wakeAt, rl,
                   ret, arrived, fresh, budget, stats>>

(* The call is over; the goroutine is free for another call *)
KeyReturn(p) ==
    /\ pc[p] = "resolved"
    /\ pc' = [pc EXCEPT ![p] = "idle"]
    /\ args' = [args EXCEPT ![p] = NoArgs]
    /\ bucketID' = [bucketID EXCEPT ![p] = <<>>]
    /\ UNCHANGED <<now, buckets, holder, queue, globalPause, call, depth, wakeAt, rl,
                   ret, arrived, fresh, budget, stats>>

KeyNext == \E p \in Callers : KeyRequest(p) \/ KeyReturn(p)

KeySpec == Init /\ [][KeyNext]_vars

(* ------------------------- endpoint wrappers --------------------------- *)
(* webhook_endpoints.go:41: the bounds of len(name) *)
MinNameLen == 1
MaxNameLen == 80

(* A webhook name: its number of characters, the bytes each of them takes  *)
(* in UTF-8, the spelling of the substring "clyde" it contains if any, and *)
(* whether that substring is the whole name.                               *)
NameLengths == { 0, MinNameLen, 5, 6, 27, MaxNameLen, MaxNameLen + 1 }
WebhookNames ==
    { n \in [runes : NameLengths, width : {1, 3},
             sub : {"none", "clyde", "Clyde"}, whole : BOOLEAN] :
        /\ n.sub = "none" => ~n.whole
        /\ n.whole => n.runes = 5 /\ n.width = 1
        /\ (n.sub # "none" /\ ~n.whole) => n.runes > 5 }

(* len counted in characters in the place of bytes *)
lenRunes(name) == name.runes

(* webhook_endpoints.go:41: len(name), the length of the string in bytes *)
len(name) == name.runes * name.width

(* webhook_endpoints.go:41: strings.ToLower(name) *)
ToLower(name) == [name EXCEPT !.sub = IF @ = "Clyde" THEN "clyde" ELSE @]

(* webhook_endpoints.go:41: strings.Contains(name, "clyde") *)
ContainsClyde(name) == name.sub = "clyde"

(* webhook_endpoints.go:41: the test that rejects a name *)
NameRejected(name) ==
    \/ len(name) < MinNameLen
    \/ len(name) > MaxNameLen
    \/ ContainsClyde(ToLower(name))

(* The dynamic types a payload of CreateInteractionResponse can have: one  *)
(* of the interaction responses behind zero, one or two pointers, or       *)
(* anything else.                                                          *)
PayloadTypes ==
    { [kind |-> k, ptr |-> n] :
        k \in {"InteractionResponseMessages", "InteractionResponseAutocomplete",
               "InteractionResponseModal", "Message"},
        n \in 0..2 }

(* a type switch that accepts every payload *)
AcceptedAny(payload) == TRUE

(* application_role_connection_metadata_endpoints.go:293-299: the cases    *)
(* of the type switch                                                      *)
Accepted(payload) ==
    /\ payload.ptr = 2
    /\ payload.kind \in {"InteractionResponseMessages",
                         "InteractionResponseAutocomplete",
                         "InteractionResponseModal"}

(* firePostRequest(u, params, reason) by caller p: one POST request *)
firePostRequest(p, u, params, reason) ==
    /\ args' = [args EXCEPT ![p] = [method |-> "POST", route |-> u,
                                    b |-> params, reason |-> reason]]
    /\ stats' = [stats EXCEPT ![p].sends = @ + 1]

(* webhook_endpoints.go:40-61 *)
CreateWebhook(p) ==
    /\ pc[p] = "idle"
    /\ \E name \in WebhookNames, reason \in {"nil", "why"} :
        /\ call' = [call EXCEPT ![p] = [fn |-> "CreateWebhook", arg |-> name]]
        /\ IF NameRejected(name)
           THEN /\ ret' = [ret EXCEPT ![p] = [resp |-> NoResp, err |-> "name"]]
                /\ UNCHANGED <<args, stats>>
           ELSE /\ firePostRequest(p, <<"w">>, name, reason)
                /\ \E e \in {NoErr, "unmarshal"} :
                      ret' = [ret EXCEPT ![p] = [resp |-> NoResp, err |-> e]]
    /\ pc' = [pc EXCEPT ![p] = "called"]
    /\ UNCHANGED <<now, buckets, holder, queue, globalPause, bucketID, depth,
                   wakeAt, rl, arrived, fresh, budget>>

(* application_role_connection_metadata_endpoints.go:290-310 *)
CreateInteractionResponse(p) ==
    /\ pc[p] = "idle"
    /\ \E payload \in PayloadTypes :
        /\ call' = [call EXCEPT ![p] = [fn |-> "CreateInteractionResponse",
                                        arg |-> payload]]
        /\ IF Accepted(payload)
           THEN /\ firePostRequest(p, <<"i">>, payload, "nil")
                /\ \E e \in {NoErr, "post"} :
                      ret' = [ret EXCEPT ![p] = [resp |-> NoResp, err |-> e]]
           ELSE /\ ret' = [ret EXCEPT ![p] = [resp |-> NoResp, err |-> NoErr]]
                /\ UNCHANGED <<args, stats>>
    /\ pc' = [pc EXCEPT ![p] = "called"]
    /\ UNCHANGED <<now, buckets, holder, queue, globalPause, bucketID, depth,
                   wakeAt, rl, arrived, fresh, budget>>

(* The endpoint has returned; the goroutine is free for another call *)
EndpointReturn(p) ==
    /\ pc[p] = "called"
    /\ pc' = [pc EXCEPT ![p] = "idle"]
    /\ call' = [call EXCEPT ![p] = NoCall]
    /\ args' = [args EXCEPT ![p] = NoArgs]
    /\ ret' = [ret EXCEPT ![p] = NoRet]
    /\ stats' = [stats EXCEPT ![p] = NoStats]
    /\ UNCHANGED <<now, buckets, holder, queue, globalPause, bucketID, depth,
                   wakeAt, rl, arrived, fresh, budget>>

EndpointNext ==
    \E p \in Callers :
        \/ CreateWebhook(p)
        \/ CreateInteractionResponse(p)
        \/ EndpointReturn(p)

EndpointSpec == Init /\ [][EndpointNext]_vars

(* ============================== claims ================================ *)
(* Positions at which a caller is between acquire and release of its bucket *)
InSection == { "quotaWait", "locked", "inFlight", "returned", "panicked" }

(* Positions at which Request has returned or terminated *)
Ended == { "done", "panicked" }

SuccessStatuses == { StatusOK, StatusCreated, StatusNoContent }

(* C1: on every path through Request every acquisition of the bucket is    *)
(* matched by exactly one release: never two releases for one acquisition, *)
(* and Request never returns or terminates with an acquisition unreleased. *)
C1_AcquireReleasePaired ==
    \A p \in Callers :
        /\ stats[p].rel <= stats[p].acq
        /\ stats[p].acq <= stats[p].rel + 1
        /\ pc[p] \in Ended => stats[p].acq = stats[p].rel

(* C2: when the transport returns an error instead of a response, the      *)
(* bucket is released with release(nil), that error is returned to the     *)
(* caller, and the request is neither re-acquired nor re-sent.             *)
C2_TransportErrorReleased ==
    \A p \in Callers :
        stats[p].lastErr = "transport" =>
            /\ pc[p] = "done"
            /\ ret[p] = [resp |-> NoResp, err |-> "transport"]
            /\ holder[bucketID[p]] # p
            /\ stats[p].rel = stats[p].acq

(* C3: a response whose status is neither a success status nor 429 is      *)
(* returned together with a non-nil error.                                 *)
C3_OtherStatusIsError ==
    \A p \in Callers :
        (/\ pc[p] = "done"
         /\ ret[p].resp # NoResp
         /\ ret[p].resp \notin SuccessStatuses \cup {StatusTooManyRequests})
        => ret[p].err # NoErr

(* C4: after one or more 429 retries the caller observes the outcome of    *)
(* the last attempt; an error of a retry attempt is never turned into nil. *)
C4_RetryErrorPropagated ==
    \A p \in Callers :
        (pc[p] = "done" /\ depth[p] > 0) => ret[p].err = stats[p].lastErr

(* C5 (as stated): each 429 response causes exactly one wait.              *)
C5_Every429Waits ==
    \A p \in Callers : stats[p].waits = stats[p].n429

(* C5 (amended): each 429 response whose headers release accepts and whose *)
(* body decodes causes exactly one wait of the retryAfter of that body,    *)
(* followed by exactly one re-acquire and one re-send; no send and no      *)
(* acquire of that request happens before the wait has ended.              *)
C5_DecodedRejectionWaitsOnce ==
    [][\A p \in Callers :
        /\ (stats'[p].n429 = stats[p].n429 + 1 /\ stats'[p].lastErr = NoErr)
           => /\ pc'[p] = "sleep"
              /\ rl'[p].at = now
              /\ wakeAt'[p] = now + rl'[p].retryAfter
              /\ stats'[p].waits = stats[p].waits + 1
              /\ stats'[p].sends = stats[p].sends
              /\ stats'[p].acq = stats[p].acq
        /\ (pc[p] = "sleep" /\ pc'[p] # "sleep")
           => /\ now >= rl[p].at + rl[p].retryAfter
              /\ pc'[p] = "lockBucket"
              /\ depth'[p] = depth[p] + 1
              /\ stats'[p].sends = stats[p].sends
              /\ stats'[p].acq = stats[p].acq
        /\ stats'[p].acq > stats[p].acq
           => stats'[p].acq = stats[p].waits + 1
        /\ stats'[p].sends > stats[p].sends
           => /\ stats'[p].sends = stats[p].waits + 1
              /\ stats'[p].acq = stats'[p].sends
    ]_vars

(* C5 witness: a request rejected once has slept, re-acquired and re-sent *)
C5_Witness ==
    \E p \in Callers :
        /\ pc[p] = "inFlight"
        /\ depth[p] = 1
        /\ stats[p].waits = 1
        /\ stats[p].sends = 2

(* A caller is in the retryAfter sleep of a global rejection *)
GlobalWait(p) ==
    pc[p] = "sleep" /\ rl[p].global /\ now < rl[p].at + rl[p].retryAfter

(* C6: after a 429 whose body has global = true, no request on any bucket  *)
(* completes an acquire or reaches the transport until the retryAfter wait *)
(* of that rejection has elapsed.                                          *)
C6_GlobalRejectionPausesAll ==
    [][(\E p \in Callers : GlobalWait(p)) =>
        \A q \in Callers :
            /\ ~(pc[q] = "lockBucket" /\ pc'[q] = "locked")
            /\ ~(pc[q] = "quotaWait" /\ pc'[q] = "locked")
            /\ ~(pc[q] = "locked" /\ pc'[q] = "inFlight")
    ]_vars

(* C7: for every bucket, at most one request is between acquire and        *)
(* release at any time, and it is the one the exclusive section records.   *)
C7_OneHolderPerBucket ==
    \A k \in Keys :
        LET inside == { p \in Callers : bucketID[p] = k /\ pc[p] \in InSection }
        IN /\ Cardinality(inside) <= 1
           /\ \A p \in inside : holder[k] = p

(* C7 witness: one caller is in flight on a bucket, another queues on it *)
C7_Witness ==
    \E p, q \in Callers :
        /\ p # q
        /\ bucketID[p] = bucketID[q]
        /\ pc[p] = "inFlight"
        /\ pc[q] = "lockBucket"

(* C8: the remaining count of a bucket is never negative.                  *)
C8_RemainingNonNegative ==
    \A k \in Keys : buckets[k].remaining >= 0

(* C8 witness: an acquire went through on a bucket with remaining = 0,     *)
(* its quota unknown or its window already reset                           *)
C8_Witness ==
    \E p \in Callers :
        /\ pc[p] = "locked"
        /\ stats[p].enterReset = 0
        /\ buckets[bucketID[p]].remaining = 0
        /\ now >= buckets[bucketID[p]].resetAt

(* C9 (as stated): a call that starts acquire while the bucket has         *)
(* remaining = 0 and now < resetAt is not handed to the transport before   *)
(* that resetAt.                                                           *)
C9_StartedExhaustedWaits ==
    [][\A p \in Callers :
        (pc[p] = "locked" /\ pc'[p] = "inFlight") => now >= stats[p].startReset
    ]_vars

(* C9 (amended): a call that enters the exclusive section of the bucket    *)
(* while remaining = 0 and now < resetAt is not handed to the transport    *)
(* before that resetAt; first attempts and 429 re-acquires alike.          *)
C9_EnteredExhaustedWaits ==
    [][\A p \in Callers :
        (pc[p] = "locked" /\ pc'[p] = "inFlight") => now >= stats[p].enterReset
    ]_vars

(* C9 witness: a call that met an exhausted bucket is sent after the reset *)
C9_Witness ==
    \E p \in Callers :
        /\ pc[p] = "locked"
        /\ stats[p].enterReset > 0
        /\ now >= stats[p].enterReset

(* C10: right after release(headers) for a response carrying quota fields *)
(* limit, remaining and resetAt equal those headers, whatever the local    *)
(* decrement left; responses are released in the order they completed, so  *)
(* an earlier response never overwrites what a later one wrote.            *)
C10_HeadersOverwriteQuota ==
    [][/\ \A k \in Keys :
            fresh'[k].kind = "quota" =>
                /\ buckets'[k].limit = fresh'[k].limit
                /\ buckets'[k].remaining = fresh'[k].remaining
                /\ buckets'[k].resetAt = fresh'[k].reset
       /\ \A p \in Callers :
            (pc[p] = "returned" /\ pc'[p] # "returned") =>
                Head(arrived[bucketID[p]]) = p
    ]_vars

(* C10 witness: quota headers replaced a locally decremented remaining *)
C10_Witness ==
    \E k \in Keys :
        /\ fresh[k].kind = "quota"
        /\ holder[k] = 0
        /\ buckets[k].remaining = MaxLimit

(* C11: the registry holds at most one Bucket instance per key: concurrent *)
(* first uses of a key receive the same instance, a later resolve returns  *)
(* that instance, and a bucket is never replaced or removed.               *)
C11_OneBucketPerKey ==
    [][/\ \A k \in Keys :
            /\ buckets'[k].instances <= 1
            /\ buckets'[k].created <=> buckets'[k].instances = 1
            /\ buckets[k].created =>
                  /\ buckets'[k].created
                  /\ buckets'[k].instances = buckets[k].instances
       /\ \A p \in Callers :
            pc'[p] # "idle" =>
                stats'[p].inst = buckets'[bucketID'[p]].instances
    ]_vars

(* C11 witness: two callers use the same key at once and hold one instance *)
C11_Witness ==
    \E p, q \in Callers :
        /\ p # q
        /\ pc[p] # "idle" /\ pc[q] # "idle"
        /\ bucketID[p] = bucketID[q]
        /\ stats[p].inst = 1 /\ stats[q].inst = 1

(* C12: two Request calls whose routes differ only in a variable path      *)
(* segment (the resource ID) resolve to the same bucket key.               *)
C12_SameTemplateSameKey ==
    \A p, q \in Callers :
        \A p1, p2 \in KeyPaths, qs \in Queries :
            (/\ pc[p] = "resolved" /\ pc[q] = "resolved"
             /\ args[p].route = p1 \o qs
             /\ args[q].route = p2 \o qs
             /\ Template(p1) = Template(p2))
            => bucketID[p] = bucketID[q]

(* C13: two Request calls whose routes differ only in their query string   *)
(* resolve to the same bucket key, which is the route without the query    *)
(* string every time it is computed.                                       *)
C13_QueryStripped ==
    \A p, q \in Callers :
        \A path \in KeyPaths, q1, q2 \in Queries :
            (/\ pc[p] = "resolved" /\ pc[q] = "resolved"
             /\ args[p].route = path \o q1
             /\ args[q].route = path \o q2)
            => /\ bucketID[p] = bucketID[q]
               /\ bucketID[p] = path

(* C13 witness: the same path resolved with two different query strings *)
C13_Witness ==
    \E p, q \in Callers :
        \E path \in KeyPaths :
            /\ pc[p] = "resolved" /\ pc[q] = "resolved"
            /\ args[p].route = path \o <<"?", "w">>
            /\ args[q].route = path \o <<"?", "w", "?", "t">>

(* C14: two Request calls to unrelated routes (different route templates)  *)
(* never resolve to the same bucket key.                                   *)
C14_UnrelatedRoutesDiffer ==
    \A p, q \in Callers :
        \A p1, p2 \in KeyPaths, q1, q2 \in Queries :
            (/\ pc[p] = "resolved" /\ pc[q] = "resolved"
             /\ args[p].route = p1 \o q1
             /\ args[q].route = p2 \o q2
             /\ Template(p1) # Template(p2))
            => bucketID[p] # bucketID[q]

(* C14 witness: two unrelated routes of the same resource are resolved *)
C14_Witness ==
    \E p, q \in Callers :
        /\ pc[p] = "resolved" /\ pc[q] = "resolved"
        /\ args[p].route = <<"g", "1", "e">>
        /\ args[q].route = <<"g", "1", "r", "?", "w">>

(* The retry ceiling of the dispatcher, as large as the model can follow *)
RetryCeiling == MaxRetries

(* C15: the retries of one logical request are bounded by the retry       *)
(* ceiling: a request waits for another retry only while it has retried   *)
(* fewer times than the ceiling, and a request rejected once more after   *)
(* it reached the ceiling has ended with the exhausted-retries error.     *)
C15_RetriesBounded ==
    \A p \in Callers :
        /\ pc[p] = "sleep" => depth[p] < RetryCeiling
        /\ stats[p].waits > RetryCeiling =>
               pc[p] = "done" /\ ret[p].err = "exhaustedRetries"

(* C16: every bucket acquired by a request is eventually released, also    *)
(* when the transport fails: a bucket is never held by a request that has  *)
(* terminated, so a caller queued on it is never left waiting for good.    *)
C16_HeldBucketIsReleasable ==
    \A k \in Keys :
        holder[k] # 0 => pc[holder[k]] \in InSection \ Ended

(* C17: every outbound request of a call made with a non-nil reason (the   *)
(* first attempt and each retry) carries the audit-reason header, and no   *)
(* request of a call made with a nil reason carries it.                    *)
C17_AuditReasonAttached ==
    \A p \in Callers :
        pc[p] \in {"inFlight", "returned"} =>
            (("X-Audit-Log-Reason" \in stats[p].headers)
                <=> args[p].reason # "nil")

(* The quota fields of a bucket *)
QuotaOf(b) == <<b.limit, b.remaining, b.resetAt>>

(* C18: a call whose body cannot be encoded sends nothing, ends with the   *)
(* encoding error and with its bucket released, and none of its steps      *)
(* changes the quota fields of the bucket: they are as before the call.    *)
C18_EncodeFailureLeavesQuota ==
    [][\A p \in Callers :
        LET k == IF bucketID[p] # <<>> THEN bucketID[p] ELSE bucketID'[p] IN
        (/\ pc'[p] # pc[p]
         /\ args[p].b = "unencodable" \/ args'[p].b = "unencodable")
        => /\ QuotaOf(buckets'[k]) = QuotaOf(buckets[k])
           /\ stats'[p].sends = 0
           /\ pc'[p] = "done" =>
                 /\ ret'[p] = [resp |-> NoResp, err |-> "encode"]
                 /\ holder'[k] # p
    ]_vars

(* Positions at which a request is suspended: the quota wait inside        *)
(* acquire and the sleep after a 429                                       *)
Suspended == { "quotaWait", "sleep" }

(* No request is waiting out a rejection the server marked global *)
NoGlobalRejection == \A r \in Callers : ~rl[r].global

(* C19: a request in its post-429 sleep or in the quota wait of acquire    *)
(* holds the exclusive section of no other bucket, and, absent a global    *)
(* rejection, a request on a different bucket key is not blocked by that   *)
(* wait: if it is pending it can enter its section, and if it waits in     *)
(* acquire it waits for the reset of its own exhausted bucket only.        *)
C19_WaitBlocksNoOtherKey ==
    \A p \in Callers :
        pc[p] \in Suspended =>
            /\ \A k \in Keys \ {bucketID[p]} : holder[k] # p
            /\ NoGlobalRejection =>
                 \A q \in Callers \ {p} :
                    bucketID[q] # bucketID[p] =>
                        /\ pc[q] = "lockBucket" => ENABLED lockBucket(q)
                        /\ pc[q] = "quotaWait" =>
                              /\ buckets[bucketID[q]].remaining = 0
                              /\ wakeAt[q] = buckets[bucketID[q]].resetAt

(* C19 witness: while one request still sleeps after a 429 that was not    *)
(* global, a request on another key has entered its exclusive section.     *)
C19_Witness ==
    \E p \in Callers, q \in Callers :
        /\ pc[p] = "sleep" /\ now < wakeAt[p] /\ ~rl[p].global
        /\ pc[q] = "locked" /\ bucketID[q] # bucketID[p]
        /\ holder[bucketID[q]] = q

(* rest.go:86-177: the phase of a logical request at a position of the     *)
(* dispatcher, given what it has returned                                  *)
PhaseOf(at, r) ==
    CASE at = "idle" -> "None"
      [] at = "lockBucket" -> "Pending"
      [] at \in {"quotaWait", "locked"} -> "Acquired"
      [] at \in {"inFlight", "returned"} -> "Sent"
      [] at = "sleep" -> "RateLimited"
      [] at = "done" -> IF r.err = NoErr THEN "Succeeded" ELSE "Failed"
      [] at = "panicked" -> "Failed"

Terminal == { "Succeeded", "Failed" }

(* The transitions of Pending -> Acquired -> Sent -> {Succeeded |          *)
(* RateLimited -> Pending | Failed}; None is the caller between two calls  *)
StatedTransitions ==
    { <<"None", "Pending">>, <<"Pending", "Acquired">>, <<"Acquired", "Sent">>,
      <<"Sent", "Succeeded">>, <<"Sent", "RateLimited">>, <<"Sent", "Failed">>,
      <<"RateLimited", "Pending">>,
      <<"Succeeded", "None">>, <<"Failed", "None">> }

(* The steps of the callers follow the transitions in T, and a request     *)
(* that is Succeeded or Failed is acquired and sent no further             *)
FollowsTransitions(T) ==
    \A p \in Callers :
        LET from == PhaseOf(pc[p], ret[p])
            to == PhaseOf(pc'[p], ret'[p])
        IN /\ from # to => <<from, to>> \in T
           /\ from \in Terminal =>
                 /\ stats'[p].acq <= stats[p].acq
                 /\ stats'[p].sends <= stats[p].sends

(* C20 (as stated): a logical request follows Pending -> Acquired -> Sent  *)
(* -> {Succeeded | RateLimited | Failed}: it is Failed only after it was   *)
(* Sent, it goes back to Pending only from RateLimited, and once it is     *)
(* Succeeded or Failed it is acquired and sent no further.                 *)
C20_FollowsStatedMachine == [][FollowsTransitions(StatedTransitions)]_vars

(* C20 (amended): as stated, and in addition an Acquired request becomes   *)
(* Failed without being Sent when its body cannot be encoded or the        *)
(* outbound request cannot be built.                                       *)
C20_FollowsMachine ==
    [][FollowsTransitions(StatedTransitions \cup {<<"Acquired", "Failed">>})]_vars

(* C20 witness: one request has ended after a 429 retry, so it was Pending *)
(* twice, while another has Failed on its body without having been Sent.   *)
C20_Witness ==
    \E p \in Callers, q \in Callers :
        /\ pc[p] = "done" /\ depth[p] > 0 /\ stats[p].sends > 1
        /\ pc[q] = "done" /\ ret[q].err = "encode" /\ stats[q].sends = 0

(* C21: release(nil), as called on the failure paths, changes none of the  *)
(* bucket's limit, remaining and resetAt; it frees the exclusive section   *)
(* the caller held and does nothing else to the bucket.                    *)
C21_ReleaseNilKeepsQuota ==
    [][\A p \in Callers :
        LET k == bucketID[p] IN
        (/\ stats'[p].rel = stats[p].rel + 1
         /\ stats'[p].lastErr \in {"encode", "newRequest", "transport"})
        => /\ QuotaOf(buckets'[k]) = QuotaOf(buckets[k])
           /\ holder[k] = p /\ holder'[k] = 0
    ]_vars

(* C21 witness: a transport failure was returned on a bucket whose quota   *)
(* is known from an earlier response, and the bucket is free.              *)
C21_Witness ==
    \E p \in Callers :
        /\ pc[p] = "done" /\ ret[p].err = "transport"
        /\ buckets[bucketID[p]].limit > 0
        /\ buckets[bucketID[p]].resetAt > 0
        /\ holder[bucketID[p]] = 0

(* C22: a bucket that has observed no response lets a call pass without    *)
(* waiting; once a response has reported remaining R and resetAt T, and    *)
(* absent further header updates, R further calls pass without waiting     *)
(* before T and the call after them waits until T: a call entering the     *)
(* section waits, until T, exactly when that budget is used up before T.   *)
C22_ReportedQuotaLetsPass ==
    [][\A p \in Callers :
        LET g == budget[bucketID[p]] IN
        (pc[p] = "lockBucket" /\ pc'[p] # "lockBucket")
        => IF g.left = 0 /\ now < g.until
           THEN pc'[p] = "quotaWait" /\ wakeAt'[p] = g.until
           ELSE pc'[p] = "locked"
    ]_vars

(* C22 witness: after a response reported a quota, one call has passed     *)
(* and ended without new quota headers, and the next call on that bucket   *)
(* waits for its reset.                                                    *)
C22_Witness ==
    \E p \in Callers, q \in Callers :
        /\ pc[p] = "quotaWait" /\ wakeAt[p] > now
        /\ wakeAt[p] = budget[bucketID[p]].until
        /\ buckets[bucketID[p]].limit > 0
        /\ pc[q] = "done" /\ bucketID[q] = bucketID[p] /\ stats[q].sends > 0

(* The call of caller p has ended with one acquire, one send and one       *)
(* release for each of its attempts, the last of which was not rejected    *)
OncePerAttempt(p) ==
    /\ stats[p].acq = depth[p] + 1
    /\ stats[p].sends = depth[p] + 1
    /\ stats[p].rel = depth[p] + 1
    /\ stats[p].n429 = depth[p]

(* C23 (as stated): a response with a success status is returned to the    *)
(* caller with a nil error after exactly one acquire, one send and one     *)
(* release for that attempt, with no dispatcher retry.                     *)
C23_SuccessReturned ==
    \A p \in Callers :
        (pc[p] = "done" /\ stats[p].status \in SuccessStatuses) =>
            /\ ret[p] = [resp |-> stats[p].status, err |-> NoErr]
            /\ OncePerAttempt(p)

(* C23 (amended): a response with a success status whose headers release   *)
(* accepts is returned with a nil error after one acquire, one send and    *)
(* one release for that attempt, with no retry; when release rejects its   *)
(* headers the attempt is as short, but a nil response is returned.        *)
C23_AcceptedSuccessReturned ==
    \A p \in Callers :
        (pc[p] = "done" /\ stats[p].status \in SuccessStatuses) =>
            /\ OncePerAttempt(p)
            /\ IF stats[p].lastErr = "release"
               THEN ret[p].resp = NoResp
               ELSE ret[p] = [resp |-> stats[p].status, err |-> NoErr]

(* C23 witness: a 204 is returned with a nil error by the first attempt.   *)
C23_Witness ==
    \E p \in Callers :
        /\ pc[p] = "done" /\ depth[p] = 0
        /\ stats[p].status = StatusNoContent
        /\ ret[p] = [resp |-> StatusNoContent, err |-> NoErr]
        /\ stats[p].sends = 1

(* C24: every outbound request carries the Authorization header and the    *)
(* User-Agent header, and carries a Content-Type header if and only if     *)
(* the body passed to Request is non-nil.                                  *)
C24_OutboundHeaders ==
    \A p \in Callers :
        pc[p] \in {"inFlight", "returned"} =>
            /\ "Authorization" \in stats[p].headers
            /\ "User-Agent" \in stats[p].headers
            /\ ("Content-Type" \in stats[p].headers) <=> (args[p].b # "nil")

(* C24 witness: a request with a body and a request without one are both  *)
(* in flight, the first with a Content-Type header and the second without. *)
C24_Witness ==
    \E p \in Callers, q \in Callers :
        /\ pc[p] = "inFlight" /\ args[p].b # "nil"
        /\ "Content-Type" \in stats[p].headers
        /\ pc[q] = "inFlight" /\ args[q].b = "nil"
        /\ "Content-Type" \notin stats[q].headers
        /\ "User-Agent" \in stats[q].headers

(* C25: callers blocked on a bucket enter its exclusive section in the     *)
(* order in which they started acquire: a caller joins the waiting order   *)
(* behind those already waiting, a fresh call and a 429 retry alike, and   *)
(* the caller that enters is the one that has waited longest.              *)
C25_FifoEntry ==
    [][\A k \in Keys :
        /\ \/ queue'[k] = queue[k]
           \/ queue[k] # <<>> /\ queue'[k] = Tail(queue[k])
           \/ \E p \in Callers : queue'[k] = Append(queue[k], p)
        /\ \A p \in Callers :
              (holder[k] # p /\ holder'[k] = p) =>
                  /\ queue[k] # <<>> /\ Head(queue[k]) = p
                  /\ queue'[k] = Tail(queue[k])
    ]_vars

(* C25 witness: a fresh caller holds the section while a 429 retry that    *)
(* started its re-acquire is waiting behind it.                            *)
C25_Witness ==
    \E p \in Callers, q \in Callers :
        /\ pc[p] = "lockBucket" /\ depth[p] > 0
        /\ bucketID[q] = bucketID[p] /\ depth[q] = 0
        /\ holder[bucketID[p]] = q
        /\ queue[bucketID[p]] = <<p>>

(* CreateWebhook has returned an error without a request *)
WebhookRefused(p) ==
    /\ ret[p].err # NoErr
    /\ stats[p].sends = 0
    /\ args[p] = NoArgs

(* CreateWebhook has issued exactly one POST that carries the name *)
WebhookPosted(p) ==
    /\ stats[p].sends = 1
    /\ args[p].method = "POST"
    /\ args[p].b = call[p].arg

C28_NilErrorHasResponse ==
    \A p \in Callers :
        (pc[p] = "done" /\ ret[p].err = NoErr) => ret[p].resp # NoResp

(* C29: when the body of a 429 response cannot be decoded, Request         *)
(* returns the decode error with a nil response, neither waits nor retries *)
(* for that response, and does not hold the bucket on return.              *)
C29_DecodeErrorReturned ==
    \A p \in Callers :
        (pc[p] = "done" /\ stats[p].lastErr = "decode") =>
            /\ ret[p] = [resp |-> NoResp, err |-> "decode"]
            /\ stats[p].waits = stats[p].n429 - 1
            /\ stats[p].sends = stats[p].n429
            /\ holder[bucketID[p]] # p
            /\ stats[p].rel = stats[p].acq

(* The interaction responses CreateInteractionResponse is written for *)
ResponseKinds ==
    { "InteractionResponseMessages", "InteractionResponseAutocomplete",
      "InteractionResponseModal" }

====
